---- MODULE Spec2Model ----
(***************************************************************************)
(* Model of scripts/generate_demo_data.py: a random binary tree over the   *)
(* sample identifiers, the optional ultrametric pass, the Newick text, the *)
(* clade/lineage labelling, the metadata rows and the two output files.    *)
(*                                                                         *)
(* Branch lengths are floats.  They are modelled as binary floating-point  *)
(* numbers with MantissaBits significant bits over the unit 0.01, rounded  *)
(* to nearest (ties to even) after every + and -, as IEEE-754 doubles are  *)
(* with 53 bits.  The random source is modelled by the results its calls   *)
(* return, read in call order from a tape.                                 *)
(***************************************************************************)
EXTENDS Integers, Sequences, FiniteSets, TLC

VARIABLES
    args,           \* the parsed command line: samples, ultrameric, seed
    pc,             \* position in main (or in the function harness)
    sample_ids,     \* main's list sample_ids
    tree,           \* main's tree (the root Node)
    tree_before,    \* the tree as it was before the ultrametric pass
    target,         \* the target handed to adjust_to_ultrametric (max_dist)
    clade_map,      \* main's clade_map
    rows,           \* main's rows
    tree_file,      \* the file at args.tree_out
    metadata_file,  \* the file at args.metadata_out
    stdout,         \* the lines printed
    exit_status,    \* the process's exit status once it has ended
    stderr,         \* the errors the process ended with
    draws,          \* how many results the random source has returned
    twin            \* a second, independent run of the same command line

vars == <<args, pc, sample_ids, tree, tree_before, target,
          clade_map, rows, tree_file, metadata_file, stdout, exit_status,
          stderr, draws, twin>>

----------------------------------------------------------------------------
(* Bounds *)

\* The largest --samples value explored.
MaxSamples == 3

\* Significant bits of the model's floating-point numbers.
MantissaBits == 4

----------------------------------------------------------------------------
(* Floating point *)

Abs(x) == IF x < 0 THEN -x ELSE x

Max(a, b) == IF a >= b THEN a ELSE b

RECURSIVE UlpFrom(_, _)
UlpFrom(x, u) == IF x < u * (2 ^ MantissaBits) THEN u ELSE UlpFrom(x, 2 * u)

\* The spacing of the floating-point numbers around x.
Ulp(x) == UlpFrom(Abs(x), 1)

\* x rounded to the nearest floating-point number, ties to the even mantissa.
Round(x) ==
    LET a == Abs(x)
        u == Ulp(a)
        q == a \div u
        r == a % u
        m == IF 2 * r > u \/ (2 * r = u /\ q % 2 = 1) THEN (q + 1) * u ELSE q * u
    IN  IF x < 0 THEN -m ELSE m

IsFloat(x) == Round(x) = x

\* Python's float + and -.
FAdd(a, b) == Round(a + b)

FSub(a, b) == Round(a - b)

----------------------------------------------------------------------------
(* Node *)

\* Python's None, as a name.
None == "<None>"

Node(name, length, children) ==
    [name |-> name, length |-> length, children |-> children]

\* The value of main's tree before line 169 binds it.
Unbuilt == Node(None, 0, <<>>)

is_leaf(node) == node.children = <<>>

\* Python's truth value of a name: None and "" are false.
Truthy(name) == name # None /\ name # ""

RECURSIVE ConcatAll(_)
ConcatAll(seqs) ==
    IF seqs = <<>> THEN <<>> ELSE Head(seqs) \o ConcatAll(Tail(seqs))

Range(seq) == {seq[i] : i \in 1..Len(seq)}

----------------------------------------------------------------------------
(* The random source *)

\* 0.02, 0.3 and 0.2 in units of 0.01.
LeafLo == 2
LeafHi == 30
InternalLo == 2
InternalHi == 20

\* The results of rng.uniform(lo, hi) explored: the two ends of the range.
Uniform(lo, hi) == {lo, hi}

\* The results of the n-1 draws of rng.shuffle on a list of n elements: for
\* i = n-1 down to 1, j = randbelow(i + 1).
ShuffleDraws(n) ==
    {js \in [1..(n - 1) -> 0..(n - 1)] : \A k \in 1..(n - 1) : js[k] <= n - k}

Swap(x, i, j) == [x EXCEPT ![i] = x[j], ![j] = x[i]]

RECURSIVE ShuffleFrom(_, _, _)
ShuffleFrom(x, js, k) ==
    IF k > Len(js) THEN x
    ELSE ShuffleFrom(Swap(x, Len(x) - k + 1, js[k] + 1), js, k + 1)

\* rng.shuffle(x) with the draws js: x[i], x[j] = x[j], x[i] for i = n-1 .. 1.
Shuffle(x, js) == ShuffleFrom(x, js, 1)

\* The results build_random_tree on n identifiers draws before it recurses:
\* the split, then the shuffle's draws.
HeadDraws(n) ==
    IF n = 1 THEN {<<>>}
    ELSE {<<split>> \o js : split \in 1..(n - 1), js \in ShuffleDraws(n)}

\* The results of its last draw, the node's length.
LastDraws(n) ==
    IF n = 1 THEN Uniform(LeafLo, LeafHi) ELSE Uniform(InternalLo, InternalHi)

\* Every sequence of results the random source can return to
\* build_random_tree on n identifiers, in call order.
RECURSIVE Tapes(_)
Tapes(n) ==
    UNION {
        {head \o tl \o tr \o <<len>> :
            tl \in (IF n = 1 THEN {<<>>} ELSE Tapes(head[1])),
            tr \in (IF n = 1 THEN {<<>>} ELSE Tapes(n - head[1])),
            len \in LastDraws(n)}
        : head \in HeadDraws(n)}

\* The tapes of the left and of the right recursive call after the draws head.
LeftTapes(n, head) == IF n = 1 THEN {<<>>} ELSE Tapes(head[1])

RightTapes(n, head) == IF n = 1 THEN {<<>>} ELSE Tapes(n - head[1])

----------------------------------------------------------------------------
(* build_random_tree *)

\* sample_ids[-split:], the last split identifiers
LastSlice(ids, split) == SubSeq(ids, Len(ids) - split + 1, Len(ids))

\* sample_ids[:split]
LeftSlice(ids, split) == SubSeq(ids, 1, split)

\* sample_ids[split:]
RightSlice(ids, split) == SubSeq(ids, split + 1, Len(ids))

\* Returns the node, the tape left and the list sample_ids as the call
\* leaves it (rng.shuffle works in place).
RECURSIVE build_random_tree(_, _)
build_random_tree(ids, rng) ==
    IF Len(ids) = 1
    THEN [node |-> Node(ids[1], rng[1], <<>>), rng |-> Tail(rng), ids |-> ids]
    ELSE LET n == Len(ids)
             split == rng[1]
             shuffled == Shuffle(ids, SubSeq(rng, 2, n))
             left == build_random_tree(LeftSlice(shuffled, split),
                                       SubSeq(rng, n + 1, Len(rng)))
             right == build_random_tree(RightSlice(shuffled, split), left.rng)
         IN  [node |-> Node(None, right.rng[1], <<left.node, right.node>>),
              rng |-> Tail(right.rng),
              ids |-> shuffled]

----------------------------------------------------------------------------
(* leaf_distances, adjust_to_ultrametric, collect_leaves *)

RECURSIVE leaf_distances(_, _)
leaf_distances(node, parent_dist) ==
    LET current == FAdd(parent_dist, node.length)
    IN  IF is_leaf(node) THEN <<current>>
        ELSE ConcatAll([i \in 1..Len(node.children) |->
                           leaf_distances(node.children[i], current)])

\* target - current, unclamped
PaddingUnclamped(tgt, current) == FSub(tgt, current)

\* max(0.0, target - current)
Padding(tgt, current) == Max(0, FSub(tgt, current))

\* The pass without the return at a leaf's end and without the leaf test:
\* every node is padded.
RECURSIVE adjust_every_node(_, _, _)
adjust_every_node(node, tgt, parent_dist) ==
    LET current == FAdd(parent_dist, node.length)
    IN  [node EXCEPT
            !.length = FAdd(node.length, Padding(tgt, current)),
            !.children =
                [i \in 1..Len(node.children) |->
                    adjust_every_node(node.children[i], tgt, current)]]

\* The node as the in-place pass leaves it.
RECURSIVE adjust_to_ultrametric(_, _, _)
adjust_to_ultrametric(node, tgt, parent_dist) ==
    LET current == FAdd(parent_dist, node.length)
    IN  IF is_leaf(node)
        THEN [node EXCEPT !.length = FAdd(node.length, Padding(tgt, current))]
        ELSE [node EXCEPT !.children =
                 [i \in 1..Len(node.children) |->
                     adjust_to_ultrametric(node.children[i], tgt, current)]]

RECURSIVE collect_leaves(_)
collect_leaves(node) ==
    IF is_leaf(node)
    THEN IF Truthy(node.name) THEN <<node.name>> ELSE <<>>
    ELSE ConcatAll([i \in 1..Len(node.children) |->
                       collect_leaves(node.children[i])])

----------------------------------------------------------------------------
(* format_length, to_newick *)

Digits2(k) == IF k < 10 THEN "0" \o ToString(k) ELSE ToString(k)

Digits3(k) == IF k < 100 THEN "0" \o Digits2(k) ELSE ToString(k)

\* f"{value:.6f}" with the trailing zeros and a trailing point stripped; a
\* value is a whole number of hundredths, so at most two decimals are left.
format_length(value) ==
    LET whole == value \div 100
        frac == value % 100
    IN  IF frac = 0 THEN ToString(whole)
        ELSE IF frac % 10 = 0 THEN ToString(whole) \o "." \o ToString(frac \div 10)
        ELSE ToString(whole) \o "." \o Digits2(frac)

RECURSIVE Join(_, _)
Join(sep, strs) ==
    IF strs = <<>> THEN ""
    ELSE IF Len(strs) = 1 THEN strs[1]
    ELSE strs[1] \o sep \o Join(sep, Tail(strs))

\* str(name) in an f-string
NameText(name) == IF name = None THEN "None" ELSE name

RECURSIVE to_newick(_)
to_newick(node) ==
    IF node.children # <<>>
    THEN "(" \o Join(",", [i \in 1..Len(node.children) |-> to_newick(node.children[i])])
             \o ")" \o (IF Truthy(node.name) THEN node.name ELSE "")
             \o ":" \o format_length(node.length)
    ELSE NameText(node.name) \o ":" \o format_length(node.length)

----------------------------------------------------------------------------
(* assign_clades_and_lineages *)

CladeLabels == <<"A", "B", "C", "D">>

LineageBases == [A |-> "L1", B |-> "L2", C |-> "L3", D |-> "L4"]

\* lineage_bases.get(clade, "L1")
lineage_base(clade) ==
    IF clade \in DOMAIN LineageBases THEN LineageBases[clade] ELSE "L1"

\* child.children, without the fallback to the child itself
ChildrenOnly(child) == child.children

\* child.children or [child]
Subgroups(child) ==
    IF child.children # <<>> THEN child.children ELSE <<child>>

\* clade_labels[idx % len(clade_labels)], idx counted from 0
CladeOf(labels, idx) == labels[(idx % Len(labels)) + 1]

\* f"{base}.{sub_idx}" with sub_idx counted from 0
LineageFromZero(base, sub_idx) == base \o "." \o ToString(sub_idx - 1)

\* f"{base}.{sub_idx}"
Lineage(base, sub_idx) == base \o "." \o ToString(sub_idx)

\* The assignments mapping[leaf] = {...} one top-level group makes, in order.
GroupEntries(child, clade) ==
    LET subgroups == Subgroups(child)
    IN  ConcatAll([s \in 1..Len(subgroups) |->
            LET leaves == collect_leaves(subgroups[s])
            IN  [k \in 1..Len(leaves) |->
                    [leaf |-> leaves[k], clade |-> clade,
                     lineage |-> Lineage(lineage_base(clade), s)]]])

\* A dict after the assignments of entries, in order: the last one of a key
\* stands.
DictOf(entries) ==
    [name \in {entries[k].leaf : k \in 1..Len(entries)} |->
        LET last == CHOOSE k \in 1..Len(entries) :
                        /\ entries[k].leaf = name
                        /\ \A m \in (k + 1)..Len(entries) : entries[m].leaf # name
        IN  [clade |-> entries[last].clade, lineage |-> entries[last].lineage]]

\* js are the results of the draws of rng.shuffle(clade_labels).
assign_clades_and_lineages(root, js) ==
    LET clade_labels == Shuffle(CladeLabels, js)
        top_children == root.children
    IN  IF top_children = <<>> THEN <<>>
        ELSE DictOf(ConcatAll([i \in 1..Len(top_children) |->
                 GroupEntries(top_children[i], CladeOf(clade_labels, i - 1))]))

----------------------------------------------------------------------------
(* generate_metadata *)

Cities == <<
    <<"Seattle", "USA">>, <<"Boston", "USA">>, <<"London", "UK">>,
    <<"Berlin", "Germany">>, <<"Nairobi", "Kenya">>, <<"Sao Paulo", "Brazil">>,
    <<"Mumbai", "India">>, <<"Sydney", "Australia">>, <<"Tokyo", "Japan">>,
    <<"Cape Town", "South Africa">> >>

SampleTypes == <<"blood", "feces", "swab", "environmental">>

Resistance == <<"none", "low", "moderate", "high">>

Hosts == <<"human", "livestock", "wildlife", "environment">>

FallbackLineages == <<"L1", "L2", "L3", "L4">>

FallbackClades == <<"A", "B", "C", "D">>

\* start_date is January 1 of StartYear; span_days = (end_date - start_date).days
StartYear == 2018
SpanDays == 2556

\* The largest strain number: rng.randint(1, 99)
MaxStrain == 99

YearLen(y) == IF y % 4 = 0 THEN 366 ELSE 365

MonthLens(y) ==
    <<31, IF y % 4 = 0 THEN 29 ELSE 28, 31, 30, 31, 30, 31, 31, 30, 31, 30, 31>>

RECURSIVE YearOf(_, _)
YearOf(y, d) ==
    IF d < YearLen(y) THEN [year |-> y, day |-> d]
    ELSE YearOf(y + 1, d - YearLen(y))

RECURSIVE MonthOf(_, _, _)
MonthOf(y, m, d) ==
    IF d < MonthLens(y)[m] THEN [month |-> m, day |-> d]
    ELSE MonthOf(y, m + 1, d - MonthLens(y)[m])

\* (start_date + dt.timedelta(days=days)).isoformat()
collection_date(days) ==
    LET yd == YearOf(StartYear, days)
        md == MonthOf(yd.year, 1, yd.day)
    IN  ToString(yd.year) \o "-" \o Digits2(md.month) \o "-" \o Digits2(md.day + 1)

\* The bound of each randbelow behind one row's calls, in call order:
\* rng.choice(seq) is seq[randbelow(len(seq))], rng.randint(a, b) is
\* a + randbelow(b - a + 1).
RowBounds ==
    <<Len(Cities), SpanDays + 1, Len(SampleTypes), Len(Resistance), MaxStrain,
      Len(Hosts), Len(FallbackLineages), Len(FallbackClades)>>

\* The results explored for the calls of generate_metadata on n identifiers:
\* every call at its least result, or every call at its largest.
MetadataTape(kind, n) ==
    [k \in 1..(n * Len(RowBounds)) |->
        LET b == RowBounds[((k - 1) % Len(RowBounds)) + 1]
        IN  IF kind = "least" THEN 0 ELSE b - 1]

MetadataTapes(n) == {MetadataTape(kind, n) : kind \in {"least", "largest"}}

\* One row; d holds the results of the row's eight draws.
Row(sample_id, d, map) ==
    LET has == sample_id \in DOMAIN map
    IN  [sample_id |-> sample_id,
         collection_date |-> collection_date(d[2]),
         city |-> Cities[d[1] + 1][1],
         country |-> Cities[d[1] + 1][2],
         sample_type |-> SampleTypes[d[3] + 1],
         antimicrobial_resistance |-> Resistance[d[4] + 1],
         strain |-> "ST" \o Digits2(1 + d[5]),
         host |-> Hosts[d[6] + 1],
         lineage |-> IF has THEN map[sample_id].lineage ELSE FallbackLineages[d[7] + 1],
         clade |-> IF has THEN map[sample_id].clade ELSE FallbackClades[d[8] + 1]]

generate_metadata(ids, rng, map) ==
    [k \in 1..Len(ids) |->
        Row(ids[k],
            SubSeq(rng, (k - 1) * Len(RowBounds) + 1, k * Len(RowBounds)),
            map)]

Fieldnames ==
    <<"sample_id", "collection_date", "city", "country", "sample_type",
      "antimicrobial_resistance", "strain", "host", "lineage", "clade">>

\* The lines csv.DictWriter writes: the header, then one line per row.
CsvLines(rs) ==
    <<Join(",", Fieldnames)>> \o
    [k \in 1..Len(rs) |-> Join(",", [f \in 1..Len(Fieldnames) |-> rs[k][Fieldnames[f]]])]

----------------------------------------------------------------------------
(* main *)

\* f"S{idx:03d}"
SampleId(idx) == "S" \o Digits3(idx)

\* [f"S{idx:03d}" for idx in range(1, samples + 1)]
SampleIds(samples) == [idx \in 1..samples |-> SampleId(idx)]

\* A file that does not exist, and a file holding text.
Absent == <<>>

File(text) == <<text>>

\* args.samples < 1
samples_below_one(samples) == samples < 1

\* args.samples < 2
samples_too_few(samples) == samples < 2

\* random.Random() whatever the seed: seeded from the process's own entropy
rng_unseeded(seed, run) == <<"entropy", run>>

\* What random.Random(args.seed) of run number run is seeded from: the seed,
\* or with no seed the process's own entropy.
rng_source(seed, run) ==
    IF seed = <<>> THEN <<"entropy", run>> ELSE <<"seed", seed[1]>>

\* The results the twin run's random source returns where this run's
\* returned d: the same when both are seeded alike.
TwinDraws(d, all) ==
    IF rng_source(args.seed, 1) = rng_source(args.seed, 2) THEN {d} ELSE all

\* main's list after build_random_tree was handed the list itself
ListShared(ids, shuffled) == shuffled

\* main's list after build_random_tree(sample_ids[:], rng): the call shuffled
\* a copy.
ListAfterBuild(ids, shuffled) == ids

RECURSIVE MinOf(_)
MinOf(ds) ==
    IF Len(ds) = 1 THEN ds[1]
    ELSE LET m == MinOf(Tail(ds)) IN IF ds[1] <= m THEN ds[1] ELSE m

\* max(leaf_distances(tree))
RECURSIVE MaxOf(_)
MaxOf(ds) ==
    IF Len(ds) = 1 THEN ds[1] ELSE Max(ds[1], MaxOf(Tail(ds)))

\* An I/O error swallowed: main goes on to next
GoOn(next) == next

\* Where main is after an I/O error in a with block that would have led to
\* next: the exception is not caught.
AfterIOError(next) == "exit"

TwinInit ==
    [sample_ids |-> <<>>, tree |-> Unbuilt, clade_map |-> <<>>, rows |-> <<>>,
     tree_file |-> Absent, metadata_file |-> Absent, stdout |-> <<>>]

Seeds == {<<42>>}

Init ==
    /\ args \in [samples : 0..MaxSamples, ultrameric : BOOLEAN, seed : Seeds]
    /\ pc = "start"
    /\ sample_ids = <<>>
    /\ tree = Unbuilt
    /\ tree_before = Unbuilt
    /\ target = 0
    /\ clade_map = <<>>
    /\ rows = <<>>
    /\ tree_file = Absent
    /\ metadata_file = Absent
    /\ stdout = <<>>
    /\ exit_status = 0
    /\ stderr = <<>>
    /\ draws = 0
    /\ twin = TwinInit

\* Lines 162-164: raise SystemExit("--samples must be >= 2")
RejectSamples ==
    /\ pc = "start"
    /\ samples_too_few(args.samples)
    /\ pc' = "exit"
    /\ exit_status' = 1
    /\ stderr' = Append(stderr, "--samples must be >= 2")
    /\ UNCHANGED <<args, sample_ids, tree, tree_before, target, clade_map,
                   rows, tree_file, metadata_file, stdout, draws, twin>>

\* Lines 166-167
MakeSampleIdsStep ==
    /\ pc = "start"
    /\ ~samples_too_few(args.samples)
    /\ sample_ids' = SampleIds(args.samples)
    /\ pc' = "build"
    /\ UNCHANGED <<args, tree, tree_before, target, clade_map, rows,
                   tree_file, metadata_file, stdout, exit_status, stderr, draws>>

MakeSampleIds == MakeSampleIdsStep /\ UNCHANGED twin

\* Line 169
BuildTreeStep(tape) ==
    /\ pc = "build"
    /\ LET built == build_random_tree(sample_ids, tape)
       IN  /\ tree' = built.node
           /\ sample_ids' = ListAfterBuild(sample_ids, built.ids)
    /\ draws' = draws + Len(tape)
    /\ pc' = "ultrametric"
    /\ UNCHANGED <<args, tree_before, target, clade_map, rows,
                   tree_file, metadata_file, stdout, exit_status, stderr>>

BuildTree ==
    /\ pc = "build"
    /\ LET n == Len(sample_ids)
       IN  \E head \in HeadDraws(n) : \E tl \in LeftTapes(n, head) :
           \E tr \in RightTapes(n, head) : \E len \in LastDraws(n) :
              BuildTreeStep(head \o tl \o tr \o <<len>>)
    /\ UNCHANGED twin

\* The tree after lines 170-172
ultrametric_pass(flag, root) ==
    IF flag THEN adjust_to_ultrametric(root, MaxOf(leaf_distances(root, 0)), 0)
    ELSE root

\* Lines 170-172
UltrametricStep ==
    /\ pc = "ultrametric"
    /\ tree_before' = tree
    /\ target' = IF args.ultrameric THEN MaxOf(leaf_distances(tree, 0)) ELSE target
    /\ tree' = ultrametric_pass(args.ultrameric, tree)
    /\ pc' = "write_tree"
    /\ UNCHANGED <<args, sample_ids, clade_map, rows, tree_file,
                   metadata_file, stdout, exit_status, stderr, draws>>

Ultrametric == UltrametricStep /\ UNCHANGED twin

\* Line 174
newick_text(root) == to_newick(root) \o ";\n"

\* Lines 174-176, the write succeeding
WriteTreeStep ==
    /\ pc = "write_tree"
    /\ tree_file' = File(newick_text(tree))
    /\ pc' = "assign"
    /\ UNCHANGED <<args, sample_ids, tree, tree_before, target, clade_map,
                   rows, metadata_file, stdout, exit_status, stderr, draws>>

WriteTree == WriteTreeStep /\ UNCHANGED twin

\* Lines 175-176 raising OSError: open fails and the file is as it was, or
\* the file was opened (and truncated) and the write or the close fails.
WriteTreeFails ==
    /\ pc = "write_tree"
    /\ tree_file' \in {tree_file, File("")}
    /\ pc' = AfterIOError("assign")
    /\ exit_status' = IF pc' = "exit" THEN 1 ELSE exit_status
    /\ stderr' = IF pc' = "exit" THEN Append(stderr, "OSError") ELSE stderr
    /\ UNCHANGED <<args, sample_ids, tree, tree_before, target, clade_map,
                   rows, metadata_file, stdout, draws, twin>>

\* Line 178
AssignCladesStep(js) ==
    /\ pc = "assign"
    /\ clade_map' = assign_clades_and_lineages(tree, js)
    /\ draws' = draws + Len(js)
    /\ pc' = "metadata"
    /\ UNCHANGED <<args, sample_ids, tree, tree_before, target, rows, tree_file,
                   metadata_file, stdout, exit_status, stderr>>

AssignClades ==
    /\ pc = "assign"
    /\ \E js \in ShuffleDraws(Len(CladeLabels)) : AssignCladesStep(js)
    /\ UNCHANGED twin

\* Lines 179-180
GenerateMetadataStep(tape) ==
    /\ pc = "metadata"
    /\ rows' = generate_metadata(sample_ids, tape, clade_map)
    /\ draws' = draws + Len(tape)
    /\ pc' = "write_metadata"
    /\ UNCHANGED <<args, sample_ids, tree, tree_before, target, clade_map,
                   tree_file, metadata_file, stdout, exit_status, stderr>>

GenerateMetadata ==
    /\ pc = "metadata"
    /\ \E tape \in MetadataTapes(Len(sample_ids)) : GenerateMetadataStep(tape)
    /\ UNCHANGED twin

\* Lines 181-184, the write succeeding
WriteMetadataStep ==
    /\ pc = "write_metadata"
    /\ metadata_file' = File(CsvLines(rows))
    /\ pc' = "print"
    /\ UNCHANGED <<args, sample_ids, tree, tree_before, target, clade_map,
                   rows, tree_file, stdout, exit_status, stderr, draws>>

WriteMetadata == WriteMetadataStep /\ UNCHANGED twin

\* Lines 181-184 raising OSError: open fails and the file is as it was, or
\* the file was opened and holds only the lines before the last.
WriteMetadataFails ==
    /\ pc = "write_metadata"
    /\ metadata_file' \in
          {metadata_file, File(SubSeq(CsvLines(rows), 1, Len(rows)))}
    /\ pc' = AfterIOError("print")
    /\ exit_status' = IF pc' = "exit" THEN 1 ELSE exit_status
    /\ stderr' = IF pc' = "exit" THEN Append(stderr, "OSError") ELSE stderr
    /\ UNCHANGED <<args, sample_ids, tree, tree_before, target, clade_map,
                   rows, tree_file, stdout, draws, twin>>

\* Line 186; main returns and the process exits with status 0.
PrintConfirmationStep ==
    /\ pc = "print"
    /\ stdout' = Append(stdout, "Wrote tree_out and metadata_out")
    /\ pc' = "exit"
    /\ UNCHANGED <<args, sample_ids, tree, tree_before, target, clade_map,
                   rows, tree_file, metadata_file, exit_status, stderr, draws>>

PrintConfirmation == PrintConfirmationStep /\ UNCHANGED twin

Next ==
    \/ RejectSamples
    \/ MakeSampleIds
    \/ BuildTree
    \/ Ultrametric
    \/ WriteTree
    \/ WriteTreeFails
    \/ AssignClades
    \/ GenerateMetadata
    \/ WriteMetadata
    \/ WriteMetadataFails
    \/ PrintConfirmation

Spec == Init /\ [][Next]_vars

----------------------------------------------------------------------------
(* Two independent runs of the same command line, step by step.  Each run  *)
(* has its own random.Random(args.seed) and its own files.                 *)

MakeSampleIdsTwice ==
    /\ MakeSampleIdsStep
    /\ twin' = [twin EXCEPT !.sample_ids = SampleIds(args.samples)]

BuildTreeTwice ==
    /\ pc = "build"
    /\ LET n == Len(sample_ids)
       IN  \E head \in HeadDraws(n) : \E tl \in LeftTapes(n, head) :
           \E tr \in RightTapes(n, head) : \E len \in LastDraws(n) :
           \E tape2 \in TwinDraws(head \o tl \o tr \o <<len>>,
                                  Tapes(Len(twin.sample_ids))) :
              /\ BuildTreeStep(head \o tl \o tr \o <<len>>)
              /\ LET built == build_random_tree(twin.sample_ids, tape2)
                 IN  twin' = [twin EXCEPT
                                 !.tree = built.node,
                                 !.sample_ids =
                                     ListAfterBuild(twin.sample_ids, built.ids)]

UltrametricTwice ==
    /\ UltrametricStep
    /\ twin' = [twin EXCEPT !.tree = ultrametric_pass(args.ultrameric, twin.tree)]

WriteTreeTwice ==
    /\ WriteTreeStep
    /\ twin' = [twin EXCEPT !.tree_file = File(newick_text(twin.tree))]

AssignCladesTwice ==
    /\ pc = "assign"
    /\ \E js \in ShuffleDraws(Len(CladeLabels)) :
         \E js2 \in TwinDraws(js, ShuffleDraws(Len(CladeLabels))) :
            /\ AssignCladesStep(js)
            /\ twin' = [twin EXCEPT
                           !.clade_map = assign_clades_and_lineages(twin.tree, js2)]

GenerateMetadataTwice ==
    /\ pc = "metadata"
    /\ \E tape \in MetadataTapes(Len(sample_ids)) :
         \E tape2 \in TwinDraws(tape, MetadataTapes(Len(twin.sample_ids))) :
            /\ GenerateMetadataStep(tape)
            /\ twin' = [twin EXCEPT
                           !.rows = generate_metadata(twin.sample_ids, tape2,
                                                      twin.clade_map)]

WriteMetadataTwice ==
    /\ WriteMetadataStep
    /\ twin' = [twin EXCEPT !.metadata_file = File(CsvLines(twin.rows))]

PrintConfirmationTwice ==
    /\ PrintConfirmationStep
    /\ twin' = [twin EXCEPT
                   !.stdout = Append(twin.stdout, "Wrote tree_out and metadata_out")]

TwoRunsNext ==
    \/ RejectSamples
    \/ MakeSampleIdsTwice
    \/ BuildTreeTwice
    \/ UltrametricTwice
    \/ WriteTreeTwice
    \/ AssignCladesTwice
    \/ GenerateMetadataTwice
    \/ WriteMetadataTwice
    \/ PrintConfirmationTwice

TwoRuns == Init /\ [][TwoRunsNext]_vars

----------------------------------------------------------------------------
(* build_random_tree and adjust_to_ultrametric called on their own: any    *)
(* list of 1..MaxSamples identifiers, any target.                          *)

\* The targets explored: from below every leaf to beyond every leaf.
Targets == {Round(k * (InternalHi \div 2)) : k \in 0..(2 * MaxSamples + 2)}

FnInit ==
    /\ \E n \in 1..MaxSamples :
          /\ sample_ids = SampleIds(n)
          /\ args = [samples |-> n, ultrameric |-> TRUE, seed |-> <<42>>]
    /\ target \in Targets
    /\ pc = "fn_build"
    /\ tree = Unbuilt
    /\ tree_before = Unbuilt
    /\ clade_map = <<>>
    /\ rows = <<>>
    /\ tree_file = Absent
    /\ metadata_file = Absent
    /\ stdout = <<>>
    /\ exit_status = 0
    /\ stderr = <<>>
    /\ draws = 0
    /\ twin = TwinInit

\* tree = build_random_tree(sample_ids, rng)
FnBuild ==
    /\ pc = "fn_build"
    /\ LET n == Len(sample_ids)
       IN  \E head \in HeadDraws(n) : \E tl \in LeftTapes(n, head) :
           \E tr \in RightTapes(n, head) : \E len \in LastDraws(n) :
              /\ tree' = build_random_tree(sample_ids, head \o tl \o tr \o <<len>>).node
              /\ draws' = draws + Len(head \o tl \o tr \o <<len>>)
    /\ pc' = "fn_adjust"
    /\ UNCHANGED <<args, sample_ids, tree_before, target, clade_map, rows,
                   tree_file, metadata_file, stdout, exit_status, stderr, twin>>

\* adjust_to_ultrametric(tree, target)
FnAdjust ==
    /\ pc = "fn_adjust"
    /\ tree_before' = tree
    /\ tree' = adjust_to_ultrametric(tree, target, 0)
    /\ pc' = "fn_done"
    /\ UNCHANGED <<args, sample_ids, target, clade_map, rows, tree_file,
                   metadata_file, stdout, exit_status, stderr, draws, twin>>

FnNext == FnBuild \/ FnAdjust

FnSpec == FnInit /\ [][FnNext]_vars

----------------------------------------------------------------------------
(* Properties *)

Greatest(ds) == CHOOSE x \in Range(ds) : \A y \in Range(ds) : y <= x

RECURSIVE CountLeaves(_)
CountLeaves(node) ==
    IF node.children = <<>> THEN 1
    ELSE CountLeaves(node.children[1]) + CountLeaves(node.children[2])

\* main has a tree and is past the ultrametric pass.
PastUltrametric ==
    \/ pc \in {"write_tree", "assign", "metadata", "write_metadata", "print"}
    \/ pc = "exit" /\ tree # Unbuilt

\* main has its clade_map.
PastAssign ==
    \/ pc \in {"metadata", "write_metadata", "print"}
    \/ pc = "exit" /\ clade_map # <<>>

\* main has its rows.
PastMetadata ==
    \/ pc \in {"write_metadata", "print"}
    \/ pc = "exit" /\ rows # <<>>

TreeWritten == tree # Unbuilt /\ tree_file = File(newick_text(tree))

MetadataWritten == rows # <<>> /\ metadata_file = File(CsvLines(rows))

Failed == pc = "exit" /\ "OSError" \in Range(stderr)

Rejected == pc = "exit" /\ "--samples must be >= 2" \in Range(stderr)

\* C1: the tree build_random_tree returns for N identifiers has exactly N
\* leaves, and its leaf names are the identifiers, each exactly once.
C1_LeavesAreTheIdentifiers ==
    pc \in {"fn_adjust", "fn_done"} =>
        LET leaves == collect_leaves(tree)
        IN  /\ CountLeaves(tree) = Len(sample_ids)
            /\ Len(leaves) = Len(sample_ids)
            /\ Range(leaves) = Range(sample_ids)
            /\ Cardinality(Range(leaves)) = Len(leaves)

C1_Witness ==
    /\ pc = "fn_adjust"
    /\ Len(sample_ids) = 3
    /\ collect_leaves(tree) = <<"S003", "S001", "S002">>
    /\ ~is_leaf(tree.children[1])

\* C2 as stated: with the ultrametric flag, every leaf of the tree main
\* serializes is at exactly the greatest leaf distance of the tree before
\* the pass.
C2_ExactlyEquidistant ==
    (PastUltrametric /\ args.ultrameric) =>
        \A d \in Range(leaf_distances(tree, 0)) :
            d = Greatest(leaf_distances(tree_before, 0))

\* C2 amended: with the ultrametric flag, every leaf of the tree main
\* serializes is within rounding (two units in the last place) of the
\* greatest leaf distance of the tree before the pass, and the target of the
\* pass is that distance.
C2_EquidistantWithinRounding ==
    (PastUltrametric /\ args.ultrameric) =>
        LET far == Greatest(leaf_distances(tree_before, 0))
        IN  /\ target = far
            /\ \A d \in Range(leaf_distances(tree, 0)) :
                   Abs(d - far) <= 2 * Ulp(far)

C2_Witness ==
    /\ PastUltrametric
    /\ args.ultrameric
    /\ tree # tree_before
    /\ \E d \in Range(leaf_distances(tree_before, 0)) :
          Greatest(leaf_distances(tree_before, 0)) - d > 2 * Ulp(target)
    /\ \E d \in Range(leaf_distances(tree, 0)) : d # target

\* C3 as stated: after adjust_to_ultrametric(tree, target), every leaf is at
\* exactly the target, whatever the tree and the target.
C3_ExactlyTarget ==
    pc = "fn_done" =>
        \A d \in Range(leaf_distances(tree, 0)) : d = target

\* C3 amended: after adjust_to_ultrametric(tree, target), a leaf that was at
\* most at the target is within rounding (two units in the last place) of the
\* target, and a leaf that was beyond the target is where it was.
C3_TargetWithinRoundingOrUnchanged ==
    pc = "fn_done" =>
        LET was == leaf_distances(tree_before, 0)
            is == leaf_distances(tree, 0)
        IN  /\ Len(is) = Len(was)
            /\ \A i \in 1..Len(was) :
                  IF was[i] <= target
                  THEN Abs(is[i] - target) <= 2 * Ulp(target)
                  ELSE is[i] = was[i]

C3_Witness ==
    /\ pc = "fn_done"
    /\ tree # tree_before
    /\ \E d \in Range(leaf_distances(tree_before, 0)) : d > target
    /\ \E d \in Range(leaf_distances(tree_before, 0)) : d < target
    /\ \E d \in Range(leaf_distances(tree, 0)) : d # target

RECURSIVE OnlyLeafLengthsGrew(_, _)
OnlyLeafLengthsGrew(was, is) ==
    /\ is.name = was.name
    /\ Len(is.children) = Len(was.children)
    /\ IF was.children = <<>>
       THEN is.length >= was.length
       ELSE /\ is.length = was.length
            /\ \A i \in 1..Len(was.children) :
                  OnlyLeafLengthsGrew(was.children[i], is.children[i])

\* C4: adjust_to_ultrametric leaves every internal node's length, every
\* name and the shape and child order of the tree as they were, and makes no
\* leaf's length smaller.
C4_OnlyLeafLengthsGrow ==
    pc = "fn_done" => OnlyLeafLengthsGrew(tree_before, tree)

C4_Witness ==
    /\ pc = "fn_done"
    /\ Len(sample_ids) = 3
    /\ tree # tree_before
    /\ \E d \in Range(leaf_distances(tree_before, 0)) : d > target

\* C5: a sample count below 2 ends the run with a non-zero status before
\* anything was drawn, built, written or printed; a sample count of 2 or more
\* never raises that error.
C5_RejectedBeforeAnyWork ==
    /\ args.samples < 2 =>
          /\ pc \in {"start", "exit"}
          /\ pc = "exit" => (exit_status = 1 /\ Rejected)
          /\ draws = 0
          /\ sample_ids = <<>>
          /\ tree = Unbuilt
          /\ clade_map = <<>>
          /\ rows = <<>>
          /\ tree_file = Absent
          /\ metadata_file = Absent
          /\ stdout = <<>>
    /\ args.samples >= 2 => "--samples must be >= 2" \notin Range(stderr)

C5_Witness == args.samples = 1 /\ Rejected /\ exit_status = 1

\* C6: the metadata has one row per sample, the sample_ids are distinct and
\* are the leaf names of the tree, and the rows are in the order S001, S002,
\* ..., whatever the shuffles of the build; the written table has the header
\* and those rows.
C6_RowsMatchSamples ==
    PastMetadata =>
        /\ Len(rows) = args.samples
        /\ \A k \in 1..Len(rows) : rows[k].sample_id = SampleId(k)
        /\ \A k, m \in 1..Len(rows) : rows[k].sample_id = rows[m].sample_id => k = m
        /\ {rows[k].sample_id : k \in 1..Len(rows)} = Range(collect_leaves(tree))
        /\ stdout # <<>> => Len(metadata_file[1]) = args.samples + 1

C6_Witness ==
    /\ pc = "exit"
    /\ stdout # <<>>
    /\ args.samples = 3
    /\ collect_leaves(tree) = <<"S002", "S003", "S001">>

\* The leaves under the j-th subgroup of top-level group child.
LeavesUnder(child, j) ==
    IF child.children = <<>> THEN collect_leaves(child)
    ELSE collect_leaves(child.children[j])

SubgroupCount(child) == IF child.children = <<>> THEN 1 ELSE Len(child.children)

\* C7: every leaf under the j-th subgroup of the i-th child of the root has
\* the clade label of that i-th group and the lineage <base of the clade>.<j>,
\* in the map and in its metadata row.
C7_LabelsFollowGroups ==
    PastAssign =>
        \A i \in 1..Len(tree.children) :
            \E c \in Range(CladeLabels) :
                \A j \in 1..SubgroupCount(tree.children[i]) :
                    \A leaf \in Range(LeavesUnder(tree.children[i], j)) :
                        /\ leaf \in DOMAIN clade_map
                        /\ clade_map[leaf].clade = c
                        /\ clade_map[leaf].lineage =
                               LineageBases[c] \o "." \o ToString(j)
                        /\ \A k \in 1..Len(rows) :
                              rows[k].sample_id = leaf =>
                                  /\ rows[k].clade = c
                                  /\ rows[k].lineage =
                                         LineageBases[c] \o "." \o ToString(j)

C7_Witness ==
    /\ pc = "print"
    /\ args.samples = 3
    /\ is_leaf(tree.children[1])
    /\ Len(tree.children[2].children) = 2
    /\ rows[1].clade = "C"
    /\ rows[1].lineage = "L3.2"
    /\ rows[2].lineage = "L3.1"
    /\ rows[3].lineage = "L2.1"

C9_AllOrNothing ==
    /\ Failed => (stdout = <<>> /\ exit_status = 1)
    /\ stdout # <<>> => (TreeWritten /\ MetadataWritten)
    /\ Failed => (TreeWritten <=> MetadataWritten)

\* C9 amended: an I/O failure ends the run there and nothing is printed: a
\* failed tree write leaves no labels, no rows and no metadata file; the
\* confirmation is printed only with both files written in full; a run that
\* failed at the metadata write has left the tree file written in full
\* without the metadata file.
C9_FailFast ==
    /\ "OSError" \in Range(stderr) => pc = "exit"
    /\ Failed => (stdout = <<>> /\ exit_status = 1 /\ ~MetadataWritten)
    /\ (Failed /\ ~TreeWritten) =>
          (clade_map = <<>> /\ rows = <<>> /\ metadata_file = Absent)
    /\ (Failed /\ rows # <<>>) => TreeWritten
    /\ stdout # <<>> => (TreeWritten /\ MetadataWritten /\ stderr = <<>>)
    /\ pc \in {"assign", "metadata", "write_metadata", "print"} => TreeWritten
    /\ pc = "print" => MetadataWritten

C9_Witness ==
    /\ Failed
    /\ TreeWritten
    /\ rows # <<>>
    /\ metadata_file # Absent
    /\ ~MetadataWritten

\* C10: the map has an entry for every sample identifier, so every row's
\* clade and lineage are the map's; the lineage is <base>.1 or <base>.2 with
\* the base of the row's clade; the two groups of the root have different
\* clade labels.
C10_EveryRowLabelledFromTree ==
    /\ PastAssign =>
          /\ DOMAIN clade_map = Range(sample_ids)
          /\ \A a \in Range(collect_leaves(tree.children[1])) :
                \A b \in Range(collect_leaves(tree.children[2])) :
                    clade_map[a].clade # clade_map[b].clade
    /\ PastMetadata =>
          \A k \in 1..Len(rows) :
              /\ rows[k].sample_id \in DOMAIN clade_map
              /\ rows[k].clade = clade_map[rows[k].sample_id].clade
              /\ rows[k].lineage = clade_map[rows[k].sample_id].lineage
              /\ rows[k].clade \in Range(CladeLabels)
              /\ rows[k].lineage \in
                     {LineageBases[rows[k].clade] \o "." \o ToString(n) : n \in 1..2}

C10_Witness ==
    /\ pc = "print"
    /\ args.samples = 3
    /\ rows[1].clade = "D"
    /\ rows[2].clade = "A"
    /\ rows[1].lineage = "L4.1"
    /\ rows[3].lineage = "L4.2"

====
